---- MODULE Spec2Model ----
(***************************************************************************)
(* Crownboard: the analytics pipeline of the dashboard.                    *)
(*                                                                         *)
(*   raw API records --fetchPayments/fetchMembers--> Payment/Membership    *)
(*     --filterByDateRange--> aggregation (Map, insertion ordered)         *)
(*     --sort, rank--> leaderboards                                        *)
(*                                                                         *)
(* JavaScript values are modelled by records [k, n, s]: k is the type tag, *)
(* n the numeric payload, s the text of a string.  An ISO date string has  *)
(* s = "iso" and carries the instant it denotes (in seconds) in n.         *)
(* Amounts are whole numbers (cents); floating point rounding is outside   *)
(* the model.                                                              *)
(***************************************************************************)
EXTENDS Integers, Sequences, FiniteSets, TLC

VARIABLES
    pc,             \* position of the request handler
    raw,            \* payments as returned by the API (data.data)
    rawMembers,     \* memberships as returned by the API
    range,          \* the DateRange of the request
    payments,       \* Payment[] produced by fetchPayments
    memberships,    \* Membership[] produced by fetchMembers
    topSpenders,    \* LeaderboardEntry[] of getTopSpenders
    topAffiliates,  \* LeaderboardEntry[] of getTopAffiliates
    mostActive,     \* LeaderboardEntry[] of getMostActiveMembers
    analytics,      \* CompanyAnalytics of getCompanyAnalytics
    apiStatus,      \* HTTP status of the API's answer, per resource
    clock,          \* the two new Date() that filterByDateRange reads
    filteredOnce,   \* the result of filterByDateRange
    filteredTwice,  \* the result of filtering that result again
    request,        \* the token header, NODE_ENV and the route's companyId
    session,        \* the identity the request was resolved to
    shownEntries,   \* LeaderboardWithWinner: the entries prop
    winner,         \* LeaderboardWithWinner: useState(null)
    showModal,      \* LeaderboardWithWinner: useState(false)
    random,         \* the last value of Math.random(), in RandomSteps-ths
    handler,        \* the last handler of LeaderboardWithWinner that ran
    location,       \* the target of redirect(), of the legacy page
    rawAffiliates,  \* affiliates as returned by the API
    inflight,       \* the fetches of Promise.all that have not settled
    loaded,         \* the results of Promise.all, by position
    order           \* the fetches in the order they settled

\* the variables of the date filter applied on its own
filterVars == <<clock, filteredOnce, filteredTwice>>

\* the variables of the session
sessionVars == <<request, session>>

\* the variables of LeaderboardWithWinner
winnerVars == <<shownEntries, winner, showModal, random, handler>>

\* the variables of loadCrownboardStatsForCompany
loadVars == <<rawAffiliates, inflight, loaded, order>>

\* the variables of the client components, of the legacy page and of the
\* loader
clientVars == <<winnerVars, location, loadVars>>

vars == <<pc, raw, rawMembers, apiStatus, range, payments, memberships,
          topSpenders, topAffiliates, mostActive, analytics, filterVars,
          sessionVars, clientVars>>

----------------------------------------------------------------------------
(* Bounds *)

\* longest API response (number of raw records in one batch)
MaxLen == 3

----------------------------------------------------------------------------
(* JavaScript values *)

Undef  == [k |-> "undefined", n |-> 0, s |-> ""]
NaN    == [k |-> "NaN", n |-> 0, s |-> ""]
Null   == [k |-> "null", n |-> 0, s |-> ""]
Num(x) == [k |-> "number", n |-> x, s |-> ""]
Str(t) == [k |-> "string", n |-> 0, s |-> t]
\* the ISO-8601 string of the instant t (seconds)
Iso(t) == [k |-> "string", n |-> t, s |-> "iso"]

\* ToBoolean: undefined, null, NaN, 0 and '' are falsy
Truthy(v) ==
    CASE v.k = "undefined" -> FALSE
      [] v.k = "null"      -> FALSE
      [] v.k = "NaN"       -> FALSE
      [] v.k = "number"    -> v.n # 0
      [] v.k = "string"    -> v.s # ""
      [] OTHER             -> TRUE

\* a || b
Or(a, b) == IF Truthy(a) THEN a ELSE b

\* a + b on numbers (NaN is absorbing)
Plus(a, b) == IF a.k = "NaN" \/ b.k = "NaN" THEN NaN ELSE Num(a.n + b.n)

\* The text of the strings the model uses as amounts, with the number
\* parseFloat reads from their longest numeric prefix (-1: no such prefix).
NumericPrefix(t) ==
    CASE t = "50"    -> 50
      [] t = "25usd" -> 25
      [] OTHER       -> -1

\* parseFloat(v): numbers pass through, strings are parsed by prefix,
\* anything else is converted to a string without a numeric prefix.
ParseFloat(v) ==
    CASE v.k = "number" -> v
      [] v.k = "string" ->
            IF NumericPrefix(v.s) >= 0 THEN Num(NumericPrefix(v.s)) ELSE NaN
      [] OTHER -> NaN
----------------------------------------------------------------------------
(* Time.  Instants are seconds of local time; a day starts at a multiple   *)
(* of Day.                                                                 *)

Day == 24 * 60 * 60

\* new Date() at the time of the request: noon of day 40
Now == 40 * Day + 12 * 60 * 60

\* the months of the model's calendar all have this many days
MonthDays == 30

\* setHours(0, 0, 0, 0)
StartOfDay(t) == t - (t % Day)

\* Date.prototype.getDate: the day of the month, from 1
GetDate(t) == ((t \div Day) % MonthDays) + 1

\* Date.prototype.setDate(d): day d of the month of t at the time of day of
\* t; d < 1 reaches into the month before
SetDate(t, d) == t + (d - GetDate(t)) * Day

\* leaderboard.ts 29-30: const now = new Date(); const cutoffDate = new
\* Date().  The second read is at or after the first.
Clock(now, cutoffDate) == [now |-> now, cutoffDate |-> cutoffDate]

\* both reads at the time of the request
Steady == Clock(Now, Now)

\* the cutoffs of the last 7 and of the last 30 days exchanged
CutoffDateSwapped(r, c) ==
    CASE r = "today" -> StartOfDay(c.cutoffDate)
      [] r = "7d"    -> StartOfDay(SetDate(c.cutoffDate, GetDate(c.now) - 30))
      [] r = "30d"   -> StartOfDay(SetDate(c.cutoffDate, GetDate(c.now) - 7))

\* leaderboard.ts 29-44: the cutoff of a range other than 'all'
CutoffDate(r, c) ==
    CASE r = "today" -> StartOfDay(c.cutoffDate)
      [] r = "7d"    -> StartOfDay(SetDate(c.cutoffDate, GetDate(c.now) - 7))
      [] r = "30d"   -> StartOfDay(SetDate(c.cutoffDate, GetDate(c.now) - 30))

\* new Date(dateStr) >= cutoffDate; an unparseable string gives an Invalid
\* Date, which compares false with everything
DateAtOrAfter(dateStr, cutoff) == dateStr.s = "iso" /\ dateStr.n >= cutoff

\* a predicate that retains the records without a date
RetainedOrUndated(item, r, c) ==
    LET dateStr == Or(item.createdAt, item.lastActivityAt)
    IN  IF ~Truthy(dateStr) THEN TRUE
        ELSE DateAtOrAfter(dateStr, CutoffDate(r, c))

\* leaderboard.ts 46-51: the predicate of data.filter
Retained(item, r, c) ==
    LET dateStr == Or(item.createdAt, item.lastActivityAt)
    IN  IF ~Truthy(dateStr) THEN FALSE
        ELSE DateAtOrAfter(dateStr, CutoffDate(r, c))

\* a filter that also drops the first record it retains
filterDroppingFirst(data, r, c) ==
    LET kept == SelectSeq(data, LAMBDA item : r = "all" \/ Retained(item, r, c))
    IN  IF kept = <<>> THEN kept ELSE Tail(kept)

\* leaderboard.ts 21-52
filterByDateRange(data, r, c) ==
    IF r = "all" THEN data
    ELSE SelectSeq(data, LAMBDA item : Retained(item, r, c))

----------------------------------------------------------------------------
(* Normalization of the API responses (lib/whop.ts)                        *)

\* part_001 371-382: one raw payment to a Payment.  The candidates
\* user.name, user.email, affiliate.name, created_at and createdAt are
\* absent from the modelled responses; id, currency and product are not
\* read by the leaderboards.
NormalizePayment(p, t) ==
    [ userId        |-> Or(Or(p.user.id, p.user_id), Str("")),
      userName      |-> Or(p.user.username, Str("Unknown User")),
      amount        |-> ParseFloat(Or(Or(p.amount, p.total_amount), Num(0))),
      affiliateId   |-> Or(p.affiliate.id, p.affiliate_id),
      affiliateName |-> p.affiliate.username,
      createdAt     |-> Or(p.date, Iso(t)),
      lastActivityAt |-> Undef ]

\* a raw entry that is null: reading a property of it throws a TypeError
IsNull(p) == p = Null

\* part_001 264-268: client.fetch throws unless response.ok
ResponseOk(status) == status = 200

\* part_001 278-347: the sample payments, dated one to six days before t;
\* their amounts (299.99, 149.99, ...) are in hundredths
getMockPayments(t) ==
    LET Mock(uid, name, cents, aff, affName, days) ==
            [ userId        |-> Str(uid),
              userName      |-> Str(name),
              amount        |-> Num(cents),
              affiliateId   |-> aff,
              affiliateName |-> affName,
              createdAt     |-> Iso(t - days * Day),
              lastActivityAt |-> Undef ]
    IN  << Mock("user_1", "Alice Johnson", 29999, Str("aff_1"), Str("Bob Smith"), 1),
           Mock("user_2", "Charlie Brown", 14999, Undef, Undef, 2),
           Mock("user_1", "Alice Johnson", 9999, Undef, Undef, 3),
           Mock("user_3", "David Wilson", 49999, Str("aff_2"), Str("Eve Davis"), 4),
           Mock("user_4", "Frank Miller", 19999, Str("aff_1"), Str("Bob Smith"), 5),
           Mock("user_2", "Charlie Brown", 14999, Undef, Undef, 6) >>

\* part_001 371-382: payments.map(...)
NormalizedPayments(data, t) ==
    [i \in 1..Len(data) |-> NormalizePayment(data[i], t)]

\* part_001 356-394: the normalized response; the sample payments when the
\* API answers with an error or normalizing an entry throws (catch, lines
\* 383-393)
fetchPayments(status, data, t) ==
    IF ResponseOk(status) /\ \A i \in 1..Len(data) : ~IsNull(data[i])
    THEN NormalizedPayments(data, t)
    ELSE getMockPayments(t)

\* parseInt(v, 10) for the values the model feeds it
ParseInt(v) == IF v.k = "number" THEN v ELSE NaN

\* part_001 557-566: one raw membership to a Membership
NormalizeMembership(m, t) ==
    [ userId         |-> Or(Or(m.user.id, m.user_id), Str("")),
      userName       |-> Or(m.user.username, Str("Unknown User")),
      status         |-> Or(m.status, Str("unknown")),
      lastActivityAt |-> Or(m.last_activity_at, Iso(t)),
      activityCount  |-> ParseInt(Or(m.activity_count, Num(0))),
      createdAt      |-> Undef ]

\* part_001 542-578, the path on which the API answers
NormalizedMembers(data, t) ==
    [i \in 1..Len(data) |-> NormalizeMembership(data[i], t)]

\* part_001 470-533: the sample memberships, active within the three hours
\* before t
getMockMembers(t) ==
    LET Mock(uid, name, count, seconds) ==
            [ userId         |-> Str(uid),
              userName       |-> Str(name),
              status         |-> Str("active"),
              lastActivityAt |-> Iso(t - seconds),
              activityCount  |-> Num(count),
              createdAt      |-> Undef ]
    IN  << Mock("user_1", "Alice Johnson", 42, 3600),
           Mock("user_2", "Charlie Brown", 38, 7200),
           Mock("user_3", "David Wilson", 55, 1800),
           Mock("user_4", "Frank Miller", 31, 5400),
           Mock("user_5", "Helen Taylor", 47, 900),
           Mock("user_6", "Ian Moore", 29, 10800) >>

\* part_001 542-578: the normalized response, or the sample memberships
\* (catch, lines 567-577)
fetchMembers(status, data, t) ==
    IF ResponseOk(status) /\ \A i \in 1..Len(data) : ~IsNull(data[i])
    THEN NormalizedMembers(data, t)
    ELSE getMockMembers(t)
\* part_001 399-423 (amounts in hundredths)
getMockAffiliates ==
    << [ id |-> Str("aff_1"), userId |-> Str("user_aff_1"),
         userName |-> Str("Bob Smith"), totalEarnings |-> Num(8999),
         totalReferrals |-> Num(5) ],
       [ id |-> Str("aff_2"), userId |-> Str("user_aff_2"),
         userName |-> Str("Eve Davis"), totalEarnings |-> Num(14999),
         totalReferrals |-> Num(3) ],
       [ id |-> Str("aff_3"), userId |-> Str("user_aff_3"),
         userName |-> Str("Grace Lee"), totalEarnings |-> Num(5999),
         totalReferrals |-> Num(7) ] >>

\* part_001 449-455: one raw affiliate to an Affiliate; rnd is the text of
\* the Math.random() that line 450 falls back to (total_earnings, earnings,
\* total_referrals, count, affiliate.name and user are absent from the
\* modelled responses)
NormalizeAffiliate(a, rnd) ==
    [ id             |-> Or(Or(a.id, a.affiliate.id), Str(rnd)),
      userId         |-> Or(Or(Or(a.affiliate.id, a.user_id), a.id), Str("")),
      userName       |-> Or(a.affiliate.username, Str("Unknown Affiliate")),
      totalEarnings  |-> ParseFloat(Or(a.revenue, Num(0))),
      totalReferrals |-> ParseInt(Or(a.referrals, Num(0))) ]

\* part_001 432-465: the affiliates of a company; draws[i] is the text of
\* the random number drawn for the i-th record
fetchAffiliates(status, data, draws) ==
    IF ResponseOk(status) /\ \A i \in 1..Len(data) : ~IsNull(data[i])
    THEN [i \in 1..Len(data) |-> NormalizeAffiliate(data[i], draws[i])]
    ELSE getMockAffiliates

----------------------------------------------------------------------------
(* Sessions (lib/whop.ts, lib/whop/sdk.ts)                                 *)

\* String(v) of a string or a number
StringOf(v) == IF v.k = "number" THEN Str(ToString(v.n)) ELSE v

\* the payload of a token; the candidates of the user id are user_id, id
\* and userId, those of the company id company_id, install.company_id,
\* companyId and tenantId.  The email is not modelled.
Payload(user_id, id, userId, company_id, install, companyId, tenantId) ==
    [ user_id |-> user_id, id |-> id, userId |-> userId,
      company_id |-> company_id, install |-> install,
      companyId |-> companyId, tenantId |-> tenantId ]

\* a payload without install object: install?.company_id is undefined
NoInstall == [company_id |-> Undef]
NoPayload == Payload(Undef, Undef, Undef, Undef, NoInstall, Undef, Undef)

\* the x-whop-user-token header: whether it is present, the number of its
\* dot-separated parts, and what JSON.parse makes of the decoded second
\* part: it throws ("invalid"), or gives null or an object
Token(present, parts, json, payload) ==
    [present |-> present, parts |-> parts, json |-> json, payload |-> payload]
NoToken    == Token(FALSE, 0, "invalid", NoPayload)
JwtOf(payload) == Token(TRUE, 3, "object", payload)

\* part_001 171-205: the token is split and its payload decoded; reading a
\* property of a null payload throws
Decodes(token) == token.present /\ token.parts = 3 /\ token.json = "object"

\* part_001 153-231; the entries email and raw of the result are left out
getWhopUser(token) ==
    IF ~Decodes(token) THEN Null
    ELSE LET payloadData == token.payload
             whopUserId  == Or(Or(payloadData.user_id, payloadData.id), Null)
             companyId   == Or(Or(Or(payloadData.company_id,
                                     payloadData.install.company_id),
                                  payloadData.companyId), Null)
         IN  IF ~Truthy(whopUserId) THEN Null
             ELSE [ whopUserId |-> StringOf(whopUserId),
                    companyId  |-> IF Truthy(companyId) THEN StringOf(companyId)
                                   ELSE Null ]

\* a session for any user, its company replaced by the user
verifyWithoutCompany(token) ==
    LET whopUser == getWhopUser(token)
    IN  IF whopUser = Null THEN Null
        ELSE [ companyId  |-> Or(whopUser.companyId, whopUser.whopUserId),
               whopUserId |-> whopUser.whopUserId ]

\* part_001 89-120; the entries email and raw of the result are left out
verifyWhopTokenOrRequest(token) ==
    LET whopUser == getWhopUser(token)
    IN  IF whopUser = Null THEN Null
        ELSE LET raw_ == token.payload
                 companyId == Or(Or(Or(Or(whopUser.companyId, raw_.company_id),
                                       raw_.install.company_id),
                                    raw_.tenantId), Null)
             IN  IF ~Truthy(whopUser.whopUserId) \/ ~Truthy(companyId) THEN Null
                 ELSE [ companyId  |-> StringOf(companyId),
                        whopUserId |-> whopUser.whopUserId ]

\* part_000 20-76: the token data, or Null when the function throws
verifyUserToken(token, nodeEnv) ==
    IF nodeEnv = "development" /\ ~token.present
    THEN [userId |-> Str("dev_user"), companyId |-> Str("dev_company")]
    ELSE IF ~Decodes(token) THEN Null
    ELSE LET payloadData == token.payload
             userId    == Or(Or(payloadData.user_id, payloadData.id),
                             payloadData.userId)
             companyId == Or(Or(Or(payloadData.company_id,
                                   payloadData.install.company_id),
                                payloadData.companyId), Undef)
         IN  IF ~Truthy(userId) THEN Null
             ELSE [ userId    |-> StringOf(userId),
                    companyId |-> IF Truthy(companyId) THEN StringOf(companyId)
                                  ELSE Undef ]

----------------------------------------------------------------------------
(* Array.prototype.sort and Map                                            *)

\* a - b on numbers
Minus(a, b) == IF a.k = "NaN" \/ b.k = "NaN" THEN NaN ELSE Num(a.n - b.n)

\* SortCompare: the comparator's result as a number, NaN read as +0
CompareResult(v) == IF v.k = "NaN" THEN 0 ELSE v.n

\* an insertion that puts x before the elements it ties with
InsertBeforeTies(sorted, x, c) ==
    LET later == {q \in 1..Len(sorted) : c[sorted[q], x] >= 0}
        at    == IF later = {} THEN Len(sorted) + 1
                 ELSE CHOOSE q \in later : \A q2 \in later : q <= q2
    IN  SubSeq(sorted, 1, at - 1) \o <<x>> \o SubSeq(sorted, at, Len(sorted))

\* x inserted into the sorted index list before the first element that
\* the comparator puts after it (c[y, x] > 0), behind all others
InsertSorted(sorted, x, c) ==
    LET later == {q \in 1..Len(sorted) : c[sorted[q], x] > 0}
        at    == IF later = {} THEN Len(sorted) + 1
                 ELSE CHOOSE q \in later : \A q2 \in later : q <= q2
    IN  SubSeq(sorted, 1, at - 1) \o <<x>> \o SubSeq(sorted, at, Len(sorted))

RECURSIVE FoldLeft(_, _, _, _, _)
\* for (const x of seq.slice(lo - 1, hi)) acc = Op(acc, x): the loop over
\* the elements lo..hi in order.  The range is split in halves and the
\* first half is computed before the second starts, which keeps the
\* evaluation shallow.
FoldLeft(Op(_, _), acc, seq, lo, hi) ==
    IF lo > hi THEN acc
    ELSE IF lo = hi THEN Op(acc, seq[lo])
    ELSE LET mid   == (lo + hi) \div 2
             first == FoldLeft(Op, acc, seq, lo, mid)
         IN  IF first = first THEN FoldLeft(Op, first, seq, mid + 1, hi)
             ELSE first

\* the first n indices in sorted order: a stable insertion sort
SortedIndices(n, c) ==
    FoldLeft(LAMBDA sorted, x : InsertSorted(sorted, x, c), <<>>,
             [i \in 1..n |-> i], 1, n)

\* rows.sort(Cmp): stable (ECMAScript 2019), ascending by the comparator
\* (the rows are computed before they are compared)
Sort(rows, Cmp(_, _)) ==
    LET c   == [i \in 1..Len(rows), j \in 1..Len(rows) |->
                   CompareResult(Cmp(rows[i], rows[j]))]
        idx == SortedIndices(Len(rows), c)
    IN  IF Len(rows) = 0 THEN <<>> ELSE [i \in 1..Len(rows) |-> rows[idx[i]]]

\* Map.get: the position of the key among the entries (0: absent)
MapIndex(m, key) ==
    IF \E i \in 1..Len(m) : m[i].key = key
    THEN CHOOSE i \in 1..Len(m) : m[i].key = key
    ELSE 0

\* a ranking that keeps the array index as the rank
RankOfIndex(index) == index

\* .map((entry, index) => ({...entry, rank: index + 1})), index from 0
RankOf(index) == index + 1

----------------------------------------------------------------------------
(* lib/leaderboard.ts                                                      *)

\* a fold that renames the user after each of its payments
AddSpendRenaming(m, payment) ==
    LET at == MapIndex(m, payment.userId)
    IN  IF at # 0
        THEN [m EXCEPT ![at].total = Plus(@, payment.amount),
                       ![at].name = payment.userName]
        ELSE Append(m, [key   |-> payment.userId,
                        name  |-> payment.userName,
                        total |-> payment.amount])

\* a fold that keeps the latest amount of a user instead of the sum
AddSpendLatest(m, payment) ==
    LET at == MapIndex(m, payment.userId)
    IN  IF at # 0
        THEN [m EXCEPT ![at].total = payment.amount]
        ELSE Append(m, [key   |-> payment.userId,
                        name  |-> payment.userName,
                        total |-> payment.amount])

\* leaderboard.ts 69-77: one payment folded into userTotals
AddSpend(m, payment) ==
    LET at == MapIndex(m, payment.userId)
    IN  IF at # 0
        THEN [m EXCEPT ![at].total = Plus(@, payment.amount)]
        ELSE Append(m, [key   |-> payment.userId,
                        name  |-> payment.userName,
                        total |-> payment.amount])

\* leaderboard.ts 66-78: userTotals after the first n filtered payments
UserTotals(filtered, n) == FoldLeft(AddSpend, <<>>, filtered, 1, n)

\* leaderboard.ts 88, 135: (a, b) => (b.amount || 0) - (a.amount || 0)
ByAmountDesc(a, b) == Minus(Or(b.amount, Num(0)), Or(a.amount, Num(0)))

\* leaderboard.ts 81-88: the entries in sorted order, each with the Map
\* key it was built from (the key is not part of a LeaderboardEntry)
SpenderRows(ps, r, t) ==
    LET filtered == filterByDateRange(ps, r, t)
        m        == UserTotals(filtered, Len(filtered))
        rows     == [i \in 1..Len(m) |->
                       [key    |-> m[i].key,
                        name   |-> m[i].name,
                        amount |-> m[i].total,
                        count  |-> Len(SelectSeq(filtered,
                                     LAMBDA p : p.userId = m[i].key))]]
    IN  Sort(rows, ByAmountDesc)

\* leaderboard.ts 89-92: ranks by position
RankedAmounts(rows) ==
    [i \in 1..Len(rows) |->
        [rank   |-> RankOf(i - 1),
         name   |-> rows[i].name,
         amount |-> rows[i].amount,
         count  |-> rows[i].count]]

\* leaderboard.ts 61-95
getTopSpenders(ps, r, t) == RankedAmounts(SpenderRows(ps, r, t))

\* leaderboard.ts 112-124: one payment folded into affiliateTotals
AddAffiliate(m, payment) ==
    IF Truthy(payment.affiliateId) /\ Truthy(payment.affiliateName)
    THEN LET at == MapIndex(m, payment.affiliateId)
         IN  IF at # 0
             THEN [m EXCEPT ![at].total = Plus(@, payment.amount),
                            ![at].count = @ + 1]
             ELSE Append(m, [key   |-> payment.affiliateId,
                             name  |-> payment.affiliateName,
                             total |-> payment.amount,
                             count |-> 1])
    ELSE m

\* leaderboard.ts 109-125
AffiliateTotals(filtered, n) == FoldLeft(AddAffiliate, <<>>, filtered, 1, n)

\* leaderboard.ts 128-135
AffiliateRows(ps, r, t) ==
    LET filtered == filterByDateRange(ps, r, t)
        m        == AffiliateTotals(filtered, Len(filtered))
        rows     == [i \in 1..Len(m) |->
                       [key    |-> m[i].key,
                        name   |-> m[i].name,
                        amount |-> m[i].total,
                        count  |-> m[i].count]]
    IN  Sort(rows, ByAmountDesc)

\* leaderboard.ts 104-142
getTopAffiliates(ps, r, t) == RankedAmounts(AffiliateRows(ps, r, t))

\* a fold that counts the memberships of every status
AddActivityAnyStatus(m, membership) ==
    LET at == MapIndex(m, membership.userId)
    IN  IF at # 0
        THEN [m EXCEPT ![at].totalActivity =
                           Plus(@, membership.activityCount)]
        ELSE Append(m, [key           |-> membership.userId,
                        name          |-> membership.userName,
                        totalActivity |-> membership.activityCount])

\* leaderboard.ts 159-169: one membership folded into userActivity
AddActivity(m, membership) ==
    IF membership.status = Str("active")
    THEN LET at == MapIndex(m, membership.userId)
         IN  IF at # 0
             THEN [m EXCEPT ![at].totalActivity =
                                Plus(@, membership.activityCount)]
             ELSE Append(m, [key           |-> membership.userId,
                             name          |-> membership.userName,
                             totalActivity |-> membership.activityCount])
    ELSE m

\* leaderboard.ts 156-170
UserActivity(filtered, n) == FoldLeft(AddActivity, <<>>, filtered, 1, n)

\* leaderboard.ts 179: (a, b) => b.count - a.count
ByCountDesc(a, b) == Minus(b.count, a.count)

\* leaderboard.ts 173-179
ActiveRows(ms, r, t) ==
    LET filtered == filterByDateRange(ms, r, t)
        m        == UserActivity(filtered, Len(filtered))
        rows     == [i \in 1..Len(m) |->
                       [key   |-> m[i].key,
                        name  |-> m[i].name,
                        count |-> m[i].totalActivity]]
    IN  Sort(rows, ByCountDesc)

\* leaderboard.ts 180-183
RankedCounts(rows) ==
    [i \in 1..Len(rows) |->
        [rank  |-> RankOf(i - 1),
         name  |-> rows[i].name,
         count |-> rows[i].count]]

\* leaderboard.ts 151-186
getMostActiveMembers(ms, r, t) == RankedCounts(ActiveRows(ms, r, t))
----------------------------------------------------------------------------
(* lib/whop/data.ts: getCompanyAnalytics, the variant that derives the     *)
(* affiliates from the payments (lines 211-403)                            *)

\* a ?? b
Coalesce(a, b) == IF a.k \in {"undefined", "null"} THEN b ELSE a

\* the strings that are a number throughout, with that number (-1: others)
WholeNumber(t) ==
    CASE t = "50" -> 50
      [] OTHER    -> -1

\* Number(v)
ToNumber(v) ==
    CASE v.k = "number" -> v
      [] v.k = "null"   -> Num(0)
      [] v.k = "string" ->
            IF v.s = "" THEN Num(0)
            ELSE IF WholeNumber(v.s) >= 0 THEN Num(WholeNumber(v.s))
            ELSE NaN
      [] OTHER -> NaN

\* slice(0, 25) of the leaderboards, slice(0, 200) of the winner pool
LeaderboardCap == 25
PoolCap == 200

\* a slice that keeps every element
SliceAll(seq, n) == seq

\* seq.slice(0, n)
Slice(seq, n) == SubSeq(seq, 1, IF Len(seq) < n THEN Len(seq) ELSE n)

\* Map.set: the value of an existing key is replaced in place, a new key
\* is appended
MapSet(m, entry) ==
    LET at == MapIndex(m, entry.key)
    IN  IF at # 0 THEN [m EXCEPT ![at] = entry] ELSE Append(m, entry)

\* data.ts 267-272, 339: the amount of a purchase.  The candidates price
\* and total are absent from the modelled responses (Number(undefined) is
\* NaN, which is falsy).
PurchaseAmount(p) ==
    LET amount == Or(Or(ToNumber(p.amount), ToNumber(p.total_amount)), Num(0))
    IN  \* Number.isFinite(amount) ? amount : 0
        IF amount.k = "number" THEN amount ELSE Num(0)

\* data.ts 253, 307: m.id ?? m.member_id ?? m.user_id (id and member_id
\* are absent from the modelled responses)
MemberId(m) == m.user_id

\* data.ts 289-293, 309: the display name of member m with id text idText
MemberName(m, idText) == Or(m.username, Str("Member " \o idText))

\* String(v) of an id
IdText(v) == IF v.k = "string" THEN v.s ELSE v.k

\* data.ts 252-254: one member entered into memberById
AddMember(byId, m) ==
    IF Truthy(MemberId(m))
    THEN MapSet(byId, [key |-> IdText(MemberId(m)), member |-> m])
    ELSE byId

\* data.ts 250-255
MemberById(members, n) == FoldLeft(AddMember, <<>>, members, 1, n)

\* memberById.get(id) ?? {}
NoMember == [user_id |-> Undef, username |-> Undef, last_active_at |-> Undef]
MemberOf(byId, idText) ==
    IF MapIndex(byId, idText) # 0 THEN byId[MapIndex(byId, idText)].member
    ELSE NoMember

\* data.ts 260-279: one purchase folded into spendByMember
AddPurchase(m, p) ==
    LET memberId == Coalesce(p.user_id, Null)
    IN  IF ~Truthy(memberId) THEN m
        ELSE LET key  == IdText(memberId)
                 at   == MapIndex(m, key)
                 prev == IF at # 0 THEN m[at]
                         ELSE [key |-> key, total |-> Num(0), count |-> 0]
             IN  MapSet(m, [key   |-> key,
                            total |-> Plus(prev.total, PurchaseAmount(p)),
                            count |-> prev.count + 1])

\* data.ts 258-280
SpendByMember(purchases, n) == FoldLeft(AddPurchase, <<>>, purchases, 1, n)

\* data.ts 301, 365: (a, b) => (b.totalSpend ?? 0) - (a.totalSpend ?? 0)
BySpendDesc(a, b) ==
    Minus(Coalesce(b.totalSpend, Num(0)), Coalesce(a.totalSpend, Num(0)))

\* data.ts 283-302
AnalyticsTopSpenders(purchases, members) ==
    LET byId  == MemberById(members, Len(members))
        spend == SpendByMember(purchases, Len(purchases))
        rows  == [i \in 1..Len(spend) |->
                    LET m == MemberOf(byId, spend[i].key)
                    IN  [id             |-> spend[i].key,
                         name           |-> MemberName(m, spend[i].key),
                         handle         |-> Coalesce(m.username, Null),
                         totalSpend     |-> spend[i].total,
                         purchasesCount |-> spend[i].count,
                         lastActiveAt   |-> Coalesce(m.last_active_at, Null)]]
    IN  Slice(Sort(rows, BySpendDesc), LeaderboardCap)

\* data.ts 326-327: a.lastActiveAt ? Date.parse(a.lastActiveAt) : 0
ActiveTime(e) ==
    IF ~Truthy(e.lastActiveAt) THEN Num(0)
    ELSE IF e.lastActiveAt.s = "iso" THEN Num(e.lastActiveAt.n) ELSE NaN

\* data.ts 325-329
ByLastActiveDesc(a, b) == Minus(ActiveTime(b), ActiveTime(a))

\* data.ts 305-330
AnalyticsMostActive(members) ==
    LET rows == [i \in 1..Len(members) |->
                    LET m    == members[i]
                        id   == MemberId(m)
                        name == MemberName(m, IdText(id))
                    IN  [id             |-> IdText(Coalesce(id, name)),
                         name           |-> name,
                         handle         |-> Coalesce(m.username, Null),
                         totalSpend     |-> Undef,
                         purchasesCount |-> Undef,
                         lastActiveAt   |-> Coalesce(m.last_active_at, Null)]]
    IN  Slice(Sort(SelectSeq(rows, LAMBDA e : e.id # ""), ByLastActiveDesc),
              LeaderboardCap)

\* data.ts 337-354: one purchase folded into affiliateStats
AddReferral(m, p) ==
    LET aff == Or(p.affiliate_id, p.affiliate.id)
    IN  IF ~Truthy(aff) THEN m
        ELSE LET affId    == IdText(Or(aff, Str("")))
                 at       == MapIndex(m, affId)
                 existing == IF at # 0 THEN m[at]
                             ELSE [key     |-> affId,
                                   revenue |-> Num(0),
                                   count   |-> 0,
                                   name    |-> Or(p.affiliate.username,
                                                  Str("Affiliate " \o affId)),
                                   handle  |-> p.affiliate.username]
             IN  MapSet(m, [key     |-> affId,
                            revenue |-> Plus(existing.revenue, PurchaseAmount(p)),
                            count   |-> existing.count + 1,
                            name    |-> existing.name,
                            handle  |-> existing.handle])

\* data.ts 334-355
AffiliateStats(purchases, n) == FoldLeft(AddReferral, <<>>, purchases, 1, n)

\* data.ts 357-366
AnalyticsTopAffiliates(purchases) ==
    LET stats == AffiliateStats(purchases, Len(purchases))
        rows  == [i \in 1..Len(stats) |->
                    [id             |-> stats[i].key,
                     name           |-> stats[i].name,
                     handle         |-> Coalesce(stats[i].handle, Null),
                     totalSpend     |-> stats[i].revenue,
                     purchasesCount |-> stats[i].count,
                     lastActiveAt   |-> Undef]]
    IN  Slice(Sort(rows, BySpendDesc), LeaderboardCap)

\* Array.from(new Set(ids)): the first n ids without repetitions, in the
\* order of their first occurrence
Distinct(ids, n) ==
    LET firsts == { i \in 1..n : \A j \in 1..(i - 1) : ids[j] # ids[i] }
        nth(k) == CHOOSE i \in firsts :
                     Cardinality({ j \in firsts : j < i }) = k - 1
    IN  [ k \in 1..Cardinality(firsts) |-> ids[nth(k)] ]

\* entries.find(m => m.id === id): the position of the first entry with
\* the id (0: none)
FindById(entries, id) ==
    IF \E i \in 1..Len(entries) : entries[i].id = id
    THEN CHOOSE i \in 1..Len(entries) :
            /\ entries[i].id = id
            /\ \A j \in 1..(i - 1) : entries[j].id # id
    ELSE 0

\* data.ts 375-394: the pool member of an id.  Every id of the Set comes
\* from one of the two leaderboards, so the lookup in memberById of lines
\* 383-393 is never reached.
PoolMember(spenders, active, id) ==
    IF FindById(spenders, id) # 0 THEN spenders[FindById(spenders, id)]
    ELSE active[FindById(active, id)]

\* the pool without new Set(...): every id of the two leaderboards in turn
PoolWithRepeats(spenders, active) ==
    LET all == [i \in 1..(Len(spenders) + Len(active)) |->
                   IF i <= Len(spenders) THEN spenders[i].id
                   ELSE active[i - Len(spenders)].id]
    IN  Slice([i \in 1..Len(all) |-> PoolMember(spenders, active, all[i])],
              PoolCap)
\* data.ts 369-395
RandomWinnerPool(spenders, active) ==
    LET all == [i \in 1..(Len(spenders) + Len(active)) |->
                   IF i <= Len(spenders) THEN spenders[i].id
                   ELSE active[i - Len(spenders)].id]
        ids == Distinct(all, Len(all))
    IN  IF Len(spenders) + Len(active) = 0 THEN <<>>
        ELSE Slice([i \in 1..Len(ids) |->
                       PoolMember(spenders, active, ids[i])], PoolCap)

\* data.ts 211-403
getCompanyAnalytics(purchases, members) ==
    LET spenders == AnalyticsTopSpenders(purchases, members)
        active   == AnalyticsMostActive(members)
    IN  [ topSpenders       |-> spenders,
          topAffiliates     |-> AnalyticsTopAffiliates(purchases),
          mostActiveMembers |-> active,
          randomWinnerPool  |-> RandomWinnerPool(spenders, active) ]

----------------------------------------------------------------------------
(* The API responses the model draws from                                  *)

Ranges == {"today", "7d", "30d", "all"}

\* instants of records: midnight today, and midnight eight days ago
Today0  == StartOfDay(Now)
LastWeek == Today0 - 8 * Day

NoObject == [id |-> Undef, username |-> Undef]

RawPayment(user, uid, amt, total, aff, affid, date) ==
    [ user         |-> user,
      user_id      |-> uid,
      amount       |-> amt,
      total_amount |-> total,
      affiliate    |-> aff,
      affiliate_id |-> affid,
      date         |-> date ]

\* payments of two users (named as their ids), of three amounts, of today
\* and of last week
SpendPayments ==
    { RawPayment([id |-> Undef, username |-> Str(u)], Str(u), Num(a), Undef,
                 NoObject, Undef, Iso(d)) :
        u \in {"A", "B"}, a \in {25, 50, 100}, d \in {Today0, LastWeek} }

\* payments of one user under two spellings of the name, referred by no
\* affiliate, by X (under two names, or without a name) or by Y
ReferredPayments ==
    { RawPayment([id |-> Undef, username |-> Str(n)], Str("A"), Num(25),
                 Undef, aff, affid, Undef) :
        n \in {"Ann", "Anna"},
        aff \in { NoObject,
                  [id |-> Str("X"), username |-> Str("Xi")],
                  [id |-> Str("X"), username |-> Str("Xu")],
                  [id |-> Str("Y"), username |-> Str("Yo")] },
        affid \in {Undef} }
    \cup
    { RawPayment([id |-> Undef, username |-> Str("Ann")], Str("A"), Num(25),
                 Undef, NoObject, Str("X"), Undef) }

\* payments of A (user.id) and B (user_id) whose amount is missing, zero
\* beside a total, text, negative or a numeric string
LoosePayments ==
    { RawPayment([id |-> u[1], username |-> Undef], u[2], at[1], at[2],
                 NoObject, Undef, Undef) :
        u  \in { <<Str("A"), Undef>>, <<Undef, Str("B")>> },
        at \in { <<Undef, Undef>>, <<Num(0), Num(25)>>, <<Str("abc"), Undef>>,
                 <<Num(0 - 25), Undef>>, <<Str("50"), Undef>> } }

\* payments of 25 or 50 whose payer is missing, A (user.id) or B (user_id)
AnonymousPayments ==
    { RawPayment([id |-> u[1], username |-> Undef], u[2], Num(a), Undef,
                 NoObject, Undef, Undef) :
        u \in { <<Undef, Undef>>, <<Str("A"), Undef>>, <<Undef, Str("B")>> },
        a \in {25, 50} }

RawMembership(uid, status, count, date) ==
    [ user             |-> [id |-> Undef, username |-> uid],
      user_id          |-> uid,
      status           |-> status,
      activity_count   |-> count,
      last_activity_at |-> date,
      username         |-> Undef,
      last_active_at   |-> Undef ]

\* memberships of two users: active today or last week, or cancelled
ListedMemberships ==
    { RawMembership(Str(u), Str("active"), Num(c), Iso(d)) :
        u \in {"A", "B"}, c \in {1, 2}, d \in {Today0, LastWeek} }
    \cup
    { RawMembership(Str("A"), Str("cancelled"), Num(2), Iso(Today0)),
      RawMembership(Str("B"), Str("cancelled"), Num(1), Iso(Today0)) }

\* the sequences over S of length at most n
SeqsUpTo(S, n) == UNION { [1..k -> S] : k \in 0..n }

----------------------------------------------------------------------------
(* DashboardPage (app/dashboard/page.tsx, the variant that fetches)        *)

\* a request: the payments the API answers with and the range of the
\* query string
PaymentsRequest(batch, ranges) ==
    /\ raw \in SeqsUpTo(batch, MaxLen)
    /\ rawAffiliates = <<>>
    /\ rawMembers = <<>>
    /\ range \in ranges

\* a request: the memberships the API answers with and the range
MembersRequest(batch, ranges) ==
    /\ raw = <<>>
    /\ rawAffiliates = <<>>
    /\ rawMembers \in SeqsUpTo(batch, MaxLen)
    /\ range \in ranges

\* the request of an identified user: the state in which the pages fetch
Identified ==
    /\ request = [ token        |-> JwtOf(Payload(Str("u1"), Undef, Undef, Str("c1"),
                                                  NoInstall, Undef, Undef)),
                   nodeEnv      |-> "production",
                   companyParam |-> Str("c1") ]
    /\ session = [whopUserId |-> Str("u1"), companyId |-> Str("c1")]

\* the API answers every request
AllOk == [payments |-> 200, members |-> 200]

\* no component mounted, no redirect issued, no fetch of the loader started
ClientIdle ==
    /\ shownEntries = <<>>
    /\ winner = Null
    /\ showModal = FALSE
    /\ random = 0
    /\ handler = "none"
    /\ location = Null
    /\ inflight = {}
    /\ loaded = Null
    /\ order = <<>>

\* nothing fetched or computed yet
NothingComputed ==
    /\ payments = <<>>
    /\ memberships = <<>>
    /\ topSpenders = <<>>
    /\ topAffiliates = <<>>
    /\ mostActive = <<>>
    /\ analytics = [ topSpenders |-> <<>>, topAffiliates |-> <<>>,
                     mostActiveMembers |-> <<>>, randomWinnerPool |-> <<>> ]
    /\ filteredOnce = <<>>
    /\ filteredTwice = <<>>
    /\ ClientIdle

\* the page is about to fetch
Pending == pc = "request" /\ NothingComputed

Init ==
    /\ \/ PaymentsRequest(SpendPayments, Ranges)
       \/ PaymentsRequest(ReferredPayments, {"all"})
       \/ PaymentsRequest(LoosePayments, {"all", "today"})
       \/ PaymentsRequest(AnonymousPayments, {"all", "today"})
       \/ MembersRequest(ListedMemberships, Ranges)
    /\ apiStatus = AllOk
    /\ clock = Steady
    /\ Identified
    /\ Pending

\* part_003 266-270: await Promise.all([fetchPayments, ..., fetchMembers])
Fetch ==
    /\ pc = "request"
    /\ payments' = fetchPayments(apiStatus.payments, raw, Now)
    /\ memberships' = fetchMembers(apiStatus.members, rawMembers, Now)
    /\ pc' = "fetched"
    /\ UNCHANGED <<raw, rawMembers, apiStatus, range, topSpenders, topAffiliates,
                   mostActive, analytics, filterVars, sessionVars,
                   clientVars>>

\* part_003 277-279: the three leaderboards of the page
Render ==
    /\ pc = "fetched"
    /\ topSpenders' = getTopSpenders(payments, range, clock)
    /\ topAffiliates' = getTopAffiliates(payments, range, clock)
    /\ mostActive' = getMostActiveMembers(memberships, range, clock)
    /\ pc' = "rendered"
    /\ UNCHANGED <<raw, rawMembers, apiStatus, range, payments, memberships, analytics,
                   filterVars, sessionVars,
                   clientVars>>

Next == Fetch \/ Render

Spec == Init /\ [][Next]_vars

----------------------------------------------------------------------------
(* CompanyDashboardPage (app/dashboard/[companyId]/page.tsx)               *)

\* data.ts 219-232: the two lists are awaited in turn and a failed request
\* rejects; reading p.affiliate_id of a null purchase throws
AnalyticsThrows ==
    \/ ~ResponseOk(apiStatus.members)
    \/ ~ResponseOk(apiStatus.payments)
    \/ \E i \in 1..Len(raw) : IsNull(raw[i])

\* page.tsx 88: const analytics = await getCompanyAnalytics(companyId); an
\* exception of the call is not caught by the page
GetCompanyAnalytics ==
    /\ pc = "request"
    /\ IF AnalyticsThrows
       THEN pc' = "error" /\ UNCHANGED analytics
       ELSE /\ analytics' = getCompanyAnalytics(raw, rawMembers)
            /\ pc' = "analytics"
    /\ UNCHANGED <<raw, rawMembers, apiStatus, range, payments, memberships,
                   topSpenders, topAffiliates, mostActive, filterVars, sessionVars,
                   clientVars>>

\* requests whose payments carry names and affiliates, served by either
\* dashboard page
InitAnalytics ==
    /\ PaymentsRequest(ReferredPayments, {"all"})
    /\ apiStatus = AllOk
    /\ clock = Steady
    /\ Identified
    /\ Pending

NextAnalytics == Fetch \/ Render \/ GetCompanyAnalytics

SpecAnalytics == InitAnalytics /\ [][NextAnalytics]_vars

----------------------------------------------------------------------------
(* Requests the API fails to answer, or answers with a null entry          *)

\* the HTTP statuses of the answers
Statuses == {200, 401, 500}

\* what the API has for the company: payments of A and B, memberships of
\* A and B
AnsweredPayments ==
    { RawPayment([id |-> Undef, username |-> Str("A")], Str("A"), Num(25), Undef,
                 NoObject, Undef, Iso(Today0)),
      RawPayment([id |-> Undef, username |-> Str("B")], Str("B"), Num(50), Undef,
                 NoObject, Undef, Iso(Today0)) }
AnsweredMembers ==
    { RawMembership(Str("A"), Str("active"), Num(1), Iso(Today0)),
      RawMembership(Str("B"), Str("active"), Num(2), Iso(Today0)) }

\* each request answered or failed, the answers well-formed
FailingRequest ==
    /\ apiStatus \in [payments : Statuses, members : Statuses]
    /\ raw \in SeqsUpTo(AnsweredPayments, MaxLen)
    /\ rawAffiliates = <<>>
    /\ rawMembers \in SeqsUpTo(AnsweredMembers, 1)
    /\ range \in {"all", "7d"}

\* every request answered, null entries among the payments
MalformedRequest ==
    /\ apiStatus = AllOk
    /\ raw \in SeqsUpTo(AnsweredPayments \cup {Null}, MaxLen)
    /\ rawAffiliates = <<>>
    /\ rawMembers = <<>>
    /\ range = "all"

InitFetch ==
    /\ FailingRequest \/ MalformedRequest
    /\ clock = Steady
    /\ Identified
    /\ Pending

NextFetch == Fetch \/ Render \/ GetCompanyAnalytics

SpecFetch == InitFetch /\ [][NextFetch]_vars

----------------------------------------------------------------------------
(* Requests with and without a session                                     *)

Payloads ==
    { Payload(u, i, uu, c, ins, cc, t) :
        u \in {Undef, Str("u1"), Num(0), Num(7)},
        i \in {Undef, Str("u2")},
        uu \in {Undef, Str("u3")},
        c \in {Undef, Str("c1")},
        ins \in {NoInstall, [company_id |-> Str("c2")]},
        cc \in {Undef, Str("c3")},
        t \in {Undef, Str("c4")} }

\* no header, a header of two parts, a payload that is no JSON, the
\* payload null, and the tokens of the payloads
Tokens ==
    { NoToken,
      Token(TRUE, 2, "invalid", NoPayload),
      Token(TRUE, 3, "invalid", NoPayload),
      Token(TRUE, 3, "null", NoPayload) }
      \cup { JwtOf(p) : p \in Payloads }

Requests ==
    [ token : Tokens,
      nodeEnv : {"development", "production"},
      companyParam : {Undef, Str("c9")} ]

InitSession ==
    /\ pc = "arrive"
    /\ request \in Requests
    /\ session = Null
    /\ raw = <<>>
    /\ rawAffiliates = <<>>
    /\ rawMembers = <<>>
    /\ apiStatus = AllOk
    /\ range = "all"
    /\ clock = Steady
    /\ NothingComputed

\* part_003 247-265: DashboardPage resolves the user and the id to fetch for
Identify ==
    /\ pc = "arrive"
    /\ LET whopUser == getWhopUser(request.token)
       IN  IF whopUser = Null
           THEN pc' = "invalid" /\ UNCHANGED session
           ELSE /\ session' = [ whopUserId |-> whopUser.whopUserId,
                                companyId  |-> Or(whopUser.companyId,
                                                  whopUser.whopUserId) ]
                /\ pc' = "request"
    /\ UNCHANGED <<raw, rawMembers, apiStatus, range, payments, memberships,
                   topSpenders, topAffiliates, mostActive, analytics,
                   filterVars, request, clientVars>>

\* page.tsx 58-85: CompanyDashboardPage takes the company from the route
\* and the user from the token
VerifyUser ==
    /\ pc = "arrive"
    /\ LET tokenData == verifyUserToken(request.token, request.nodeEnv)
       IN  IF ~Truthy(request.companyParam) \/ tokenData = Null
           THEN pc' = "invalid" /\ UNCHANGED session
           ELSE /\ session' = [ whopUserId |-> tokenData.userId,
                                companyId  |-> request.companyParam ]
                /\ pc' = "request"
    /\ UNCHANGED <<raw, rawMembers, apiStatus, range, payments, memberships,
                   topSpenders, topAffiliates, mostActive, analytics,
                   filterVars, request, clientVars>>

\* part_001 89-120: verifyWhopTokenOrRequest(headers)
VerifySession ==
    /\ pc = "arrive"
    /\ session' = verifyWhopTokenOrRequest(request.token)
    /\ pc' = "verified"
    /\ UNCHANGED <<raw, rawMembers, apiStatus, range, payments, memberships,
                   topSpenders, topAffiliates, mostActive, analytics,
                   filterVars, request, clientVars>>

NextSession ==
    \/ Identify \/ VerifyUser \/ VerifySession
    \/ Fetch \/ Render \/ GetCompanyAnalytics

SpecSession == InitSession /\ [][NextSession]_vars

----------------------------------------------------------------------------
(* filterByDateRange applied on its own (leaderboard.ts 21-52)             *)

\* the clock ticking over midnight, within a month and into the next
\* month, between the two reads
MidnightTick == Clock(41 * Day - 1, 41 * Day)
MonthTick    == Clock(2 * MonthDays * Day - 1, 2 * MonthDays * Day)

\* the (clock, range) pairs of the calls
FilterCalls ==
    ({Steady} \X Ranges)
      \cup ({MidnightTick} \X {"today", "7d"})
      \cup ({MonthTick} \X {"7d", "30d"})

\* a record of type { createdAt?: string; lastActivityAt?: string }
Dated(createdAt, lastActivityAt) ==
    [createdAt |-> createdAt, lastActivityAt |-> lastActivityAt]

\* records at the midnights 0, 7 and 30 days before the day of the call
\* and one second before them, records dated by lastActivityAt only, and
\* records without a date or with a text that is no date
RecordsAround(c) ==
    LET today == StartOfDay(c.cutoffDate)
    IN  { Dated(Iso(today - n * Day - e), Undef) : n \in {0, 7, 30}, e \in {0, 1} }
          \cup { Dated(Undef, Iso(today)),
                 Dated(Str(""), Iso(today - 1)),
                 Dated(Undef, Undef),
                 Dated(Str("soon"), Iso(today)) }

InitFilter ==
    /\ pc = "filter"
    /\ \E call \in FilterCalls :
          /\ clock = call[1]
          /\ range = call[2]
          /\ payments \in SeqsUpTo(RecordsAround(call[1]), MaxLen)
    /\ raw = <<>>
    /\ rawAffiliates = <<>>
    /\ rawMembers = <<>>
    /\ apiStatus = AllOk
    /\ memberships = <<>>
    /\ topSpenders = <<>>
    /\ topAffiliates = <<>>
    /\ mostActive = <<>>
    /\ analytics = [ topSpenders |-> <<>>, topAffiliates |-> <<>>,
                     mostActiveMembers |-> <<>>, randomWinnerPool |-> <<>> ]
    /\ filteredOnce = <<>>
    /\ filteredTwice = <<>>
    /\ ClientIdle
    /\ Identified

\* leaderboard.ts 63: filterByDateRange(payments, range)
FilterOnce ==
    /\ pc = "filter"
    /\ filteredOnce' = filterByDateRange(payments, range, clock)
    /\ pc' = "filtered"
    /\ UNCHANGED <<raw, rawMembers, apiStatus, range, payments, memberships, topSpenders,
                   topAffiliates, mostActive, analytics, clock, filteredTwice,
                   sessionVars, clientVars>>

\* the result filtered again, with the same range and the same clock
FilterTwice ==
    /\ pc = "filtered"
    /\ filteredTwice' = filterByDateRange(filteredOnce, range, clock)
    /\ pc' = "refiltered"
    /\ UNCHANGED <<raw, rawMembers, apiStatus, range, payments, memberships, topSpenders,
                   topAffiliates, mostActive, analytics, clock, filteredOnce,
                   sessionVars, clientVars>>

NextFilter == FilterOnce \/ FilterTwice

SpecFilter == InitFilter /\ [][NextFilter]_vars

----------------------------------------------------------------------------
(* Companies with members: getCompanyAnalytics over purchases and members  *)

\* a member of the members list (data.ts 305-323 reads its id, username
\* and last_active_at)
ListedMember(uid, username, lastActive) ==
    [ RawMembership(uid, Str("active"), Num(1), Undef) EXCEPT
        !.username = username, !.last_active_at = lastActive ]

\* A and C named and seen, B without a name, and two records without an
\* id: one whose username is the id of A, one without a username
AnalysedMembers ==
    { ListedMember(Str("A"), Str("Ann"), Iso(Today0)),
      ListedMember(Str("B"), Undef, Undef),
      ListedMember(Str("C"), Str("Cy"), Iso(LastWeek)),
      ListedMember(Undef, Str("A"), Undef),
      ListedMember(Undef, Undef, Undef) }

\* the i-th actor of a large company
CrowdId(i) == Str("m" \o ToString(i))

\* n purchases of n members, the i-th of amount i
CrowdPurchases(n) ==
    [ i \in 1..n |->
        RawPayment([id |-> Undef, username |-> CrowdId(i)], CrowdId(i), Num(i),
                   Undef, [id |-> CrowdId(i), username |-> CrowdId(i)], Undef,
                   Undef) ]

\* the n members of the company
CrowdMembers(n) ==
    [ i \in 1..n |-> ListedMember(CrowdId(i), CrowdId(i), Undef) ]

\* companies of as many actors as a leaderboard shows, and of one more
CrowdSizes == { LeaderboardCap, LeaderboardCap + 1 }

InitPool ==
    /\ \/ /\ raw \in SeqsUpTo(AnsweredPayments, MaxLen)
          /\ rawMembers \in SeqsUpTo(AnalysedMembers, MaxLen)
       \/ \E n \in CrowdSizes :
             /\ raw = CrowdPurchases(n)
             /\ rawMembers \in { <<>>, CrowdMembers(n) }
    /\ range = "all"
    /\ rawAffiliates = <<>>
    /\ apiStatus = AllOk
    /\ clock = Steady
    /\ Identified
    /\ Pending

NextPool == Fetch \/ Render \/ GetCompanyAnalytics

SpecPool == InitPool /\ [][NextPool]_vars

----------------------------------------------------------------------------
(* Crownboard and LeaderboardWithWinner (components)                       *)

\* Math.random() takes the values n / RandomSteps, n in 0..RandomSteps - 1
RandomSteps == 6

\* an index rounded up instead of down
RandomIndexRoundedUp(n, k) == (n * k + RandomSteps - 1) \div RandomSteps

\* part_002 126: Math.floor(Math.random() * entries.length)
RandomIndex(n, k) == (n * k) \div RandomSteps

\* part_002 127: entries[randomIndex], undefined beyond the end
EntryAt(es, index) ==
    IF index + 1 \in 1..Len(es) THEN es[index + 1] ELSE Undef

\* a pick that does not look at the number of entries
pickWithoutGuard(es, state, n) ==
    [winner |-> EntryAt(es, RandomIndex(n, Len(es))), showModal |-> TRUE]

\* part_002 123-131: the state of the component after the handler ran with
\* Math.random() = n / RandomSteps
pickRandomWinner(es, state, n) ==
    IF Len(es) = 0 THEN state
    ELSE [winner |-> EntryAt(es, RandomIndex(n, Len(es))), showModal |-> TRUE]

\* a close that also forgets the winner
closeAndForget(state) == [winner |-> Null, showModal |-> FALSE]

\* part_002 133-135
closeModal(state) == [state EXCEPT !.showModal = FALSE]

\* LeaderboardTable.tsx 101, 118: the tabs of Crownboard
Tabs == {"spenders", "affiliates", "active"}

\* LeaderboardTable.tsx 118, 175-211: Crownboard mounts the component of
\* the active tab with the leaderboard of that tab as entries
Crownboard ==
    /\ pc = "analytics"
    /\ LET activeTab == Or(request.tab, Str("spenders"))
       IN  /\ shownEntries' =
                 CASE activeTab.s = "spenders"   -> analytics.topSpenders
                   [] activeTab.s = "affiliates" -> analytics.topAffiliates
                   [] activeTab.s = "active"     -> analytics.mostActiveMembers
                   [] OTHER                      -> <<>>
           /\ pc' = IF activeTab.s \in Tabs THEN "mounted" ELSE "blank"
    /\ UNCHANGED <<raw, rawMembers, apiStatus, range, payments, memberships,
                   topSpenders, topAffiliates, mostActive, analytics,
                   filterVars, sessionVars, winner, showModal, random,
                   handler, location, loadVars>>

\* part_002 123-131: pickRandomWinner runs
PickRandomWinner ==
    /\ pc = "mounted"
    /\ \E n \in 0..(RandomSteps - 1) :
          LET after == pickRandomWinner(shownEntries,
                           [winner |-> winner, showModal |-> showModal], n)
          IN  /\ winner' = after.winner
              /\ showModal' = after.showModal
              /\ random' = IF Len(shownEntries) = 0 THEN random ELSE n
    /\ handler' = "pickRandomWinner"
    /\ UNCHANGED <<pc, raw, rawMembers, apiStatus, range, payments, memberships,
                   topSpenders, topAffiliates, mostActive, analytics,
                   filterVars, sessionVars, shownEntries, location, loadVars>>

\* part_002 133-135: closeModal runs
CloseModal ==
    /\ pc = "mounted"
    /\ LET after == closeModal([winner |-> winner, showModal |-> showModal])
       IN  /\ winner' = after.winner
           /\ showModal' = after.showModal
    /\ handler' = "closeModal"
    /\ UNCHANGED <<pc, raw, rawMembers, apiStatus, range, payments, memberships,
                   topSpenders, topAffiliates, mostActive, analytics,
                   filterVars, sessionVars, shownEntries, random, location,
                   loadVars>>

\* purchases of A, and of B referred by the affiliate X
WinnerPurchases ==
    { RawPayment([id |-> Undef, username |-> Str("A")], Str("A"), Num(25),
                 Undef, NoObject, Undef, Undef),
      RawPayment([id |-> Undef, username |-> Str("B")], Str("B"), Num(50),
                 Undef, [id |-> Str("X"), username |-> Str("Xi")], Undef,
                 Undef) }

\* the members A and C
WinnerMembers ==
    { ListedMember(Str("A"), Str("Ann"), Iso(Today0)),
      ListedMember(Str("C"), Str("Cy"), Iso(LastWeek)) }

\* the tab of the query string: absent, a tab, or another text
TabParams == {Undef, Str("spenders"), Str("affiliates"), Str("active"),
              Str("other")}

InitWinner ==
    /\ raw \in SeqsUpTo(WinnerPurchases, MaxLen)
    /\ rawMembers \in SeqsUpTo(WinnerMembers, MaxLen)
    /\ rawAffiliates = <<>>
    /\ range = "all"
    /\ apiStatus = AllOk
    /\ clock = Steady
    /\ \E t \in TabParams :
          request = [ token        |-> JwtOf(Payload(Str("u1"), Undef, Undef,
                                             Str("c1"), NoInstall, Undef,
                                             Undef)),
                      nodeEnv      |-> "production",
                      companyParam |-> Str("c1"),
                      tab          |-> t ]
    /\ session = [whopUserId |-> Str("u1"), companyId |-> Str("c1")]
    /\ Pending

NextWinner == GetCompanyAnalytics \/ Crownboard \/ PickRandomWinner \/ CloseModal

SpecWinner == InitWinner /\ [][NextWinner]_vars
----------------------------------------------------------------------------
(* loadCrownboardStatsForCompany (lib/whop.ts)                             *)

\* part_001 135-139: the promises of Promise.all, in the order of the array
Fetches == <<"payments", "affiliates", "memberships">>

\* no promise has settled
Unsettled == [payments |-> Null, affiliates |-> Null, memberships |-> Null]

\* a result stored in the order in which the promises settle
SettleInArrivalOrder(results, name, value) ==
    [results EXCEPT ![Fetches[Len(order) + 1]] = value]

\* Promise.all: the value of a promise is stored at the position of the
\* promise, whenever it settles
Settle(results, name, value) == [results EXCEPT ![name] = value]

\* String(Math.random()) for Math.random() = n / RandomSteps
RandomText(n) == ToString(n) \o "/" \o ToString(RandomSteps)

\* the random texts drawn for k records
Draws(k) == [1..k -> { RandomText(n) : n \in 0..(RandomSteps - 1) }]

\* part_001 135-139: the three fetches are called one after the other;
\* each returns a pending promise (the company id is not empty, so that
\* none of them returns mock data before it asks the API)
StartLoad ==
    /\ pc = "load"
    /\ inflight' = { Fetches[i] : i \in 1..Len(Fetches) }
    /\ loaded' = Unsettled
    /\ order' = <<>>
    /\ pc' = "loading"
    /\ UNCHANGED <<raw, rawMembers, apiStatus, range, payments, memberships,
                   topSpenders, topAffiliates, mostActive, analytics,
                   filterVars, sessionVars, winnerVars, location,
                   rawAffiliates>>

\* the value a fetch resolves to (none of the three rejects: each catches
\* its errors and returns mock data)
Resolved(name, draws) ==
    CASE name = "payments"    -> fetchPayments(apiStatus.payments, raw, Now)
      [] name = "affiliates"  -> fetchAffiliates(apiStatus.affiliates,
                                                 rawAffiliates, draws)
      [] name = "memberships" -> fetchMembers(apiStatus.members, rawMembers,
                                              Now)

\* one of the pending fetches settles
CompleteFetch ==
    /\ pc = "loading"
    /\ \E name \in inflight :
          /\ \E draws \in Draws(Len(rawAffiliates)) :
                loaded' = Settle(loaded, name, Resolved(name, draws))
          /\ inflight' = inflight \ {name}
          /\ order' = Append(order, name)
    /\ UNCHANGED <<pc, raw, rawMembers, apiStatus, range, payments, memberships,
                   topSpenders, topAffiliates, mostActive, analytics,
                   filterVars, sessionVars, winnerVars, location,
                   rawAffiliates>>

\* part_001 135, 141-145: await Promise.all(...) resumes when no promise
\* is pending, and the three results are returned
ReturnStats ==
    /\ pc = "loading"
    /\ inflight = {}
    /\ pc' = "loaded"
    /\ UNCHANGED <<raw, rawMembers, apiStatus, range, payments, memberships,
                   topSpenders, topAffiliates, mostActive, analytics,
                   filterVars, sessionVars, winnerVars, location, loadVars>>

\* an affiliate with an id, and one without
AnsweredAffiliates ==
    { [ id |-> Str("X"), affiliate |-> NoObject, user_id |-> Undef,
        revenue |-> Num(100), referrals |-> Num(2) ],
      [ id |-> Undef, affiliate |-> NoObject, user_id |-> Str("Y"),
        revenue |-> Str("50"), referrals |-> Undef ] }

\* each of the three requests answered or failed
InitLoad ==
    /\ pc = "load"
    /\ raw \in SeqsUpTo(AnsweredPayments, 1)
    /\ rawAffiliates \in SeqsUpTo(AnsweredAffiliates, 1)
    /\ rawMembers \in SeqsUpTo(AnsweredMembers, 1)
    /\ apiStatus \in [{"payments", "affiliates", "members"} -> {200, 500}]
    /\ range = "all"
    /\ clock = Steady
    /\ Identified
    /\ NothingComputed

NextLoad == StartLoad \/ CompleteFetch \/ ReturnStats

SpecLoad == InitLoad /\ [][NextLoad]_vars
----------------------------------------------------------------------------
(* The legacy route (app/dashboard/page.tsx)                               *)

\* page.tsx 24-27: the target of the redirect
RedirectTarget(companyId, params) ==
    Str("/dashboard/" \o companyId.s
          \o "?tab=" \o Or(params.tab, Str("spenders")).s
          \o "&range=" \o Or(params.range, Str("all")).s)

\* page.tsx 19-28: what the try block throws.  verifyUserToken throws an
\* Error; redirect() of next/navigation returns never: it throws the
\* NEXT_REDIRECT error that the framework turns into the redirect.
TryBlock(req) ==
    LET tokenData == verifyUserToken(req.token, req.nodeEnv)
    IN  IF tokenData = Null THEN [thrown |-> "Error", target |-> Null]
        ELSE IF Truthy(tokenData.companyId)
        THEN [ thrown |-> "NEXT_REDIRECT",
               target |-> RedirectTarget(tokenData.companyId, req) ]
        ELSE [thrown |-> "none", target |-> Null]

\* page.tsx 29-31: catch { } has no binding and no rethrow: it handles
\* whatever the try block throws
Caught(thrown) == thrown # "none"

\* page.tsx 15-54: the redirect takes place if its error leaves the
\* function; otherwise the function returns the demo state
LegacyDashboardPage ==
    /\ pc = "arrive"
    /\ LET block == TryBlock(request)
       IN  IF block.thrown = "NEXT_REDIRECT" /\ ~Caught(block.thrown)
           THEN pc' = "redirected" /\ location' = block.target
           ELSE pc' = "demo" /\ UNCHANGED location
    /\ UNCHANGED <<raw, rawMembers, apiStatus, range, payments, memberships,
                   topSpenders, topAffiliates, mostActive, analytics,
                   filterVars, sessionVars, winnerVars, loadVars>>

\* the requests of the legacy route: a token header, NODE_ENV and the
\* query string
LegacyRequests ==
    [ token   : Tokens,
      nodeEnv : {"development", "production"},
      tab     : {Undef, Str("affiliates")},
      range   : {Undef, Str("7d")} ]

InitLegacy ==
    /\ pc = "arrive"
    /\ request \in LegacyRequests
    /\ session = Null
    /\ raw = <<>>
    /\ rawAffiliates = <<>>
    /\ rawMembers = <<>>
    /\ apiStatus = AllOk
    /\ range = "all"
    /\ clock = Steady
    /\ NothingComputed

NextLegacy == LegacyDashboardPage

SpecLegacy == InitLegacy /\ [][NextLegacy]_vars
(* Properties                                                              *)

Rendered == pc = "rendered"
Fetched  == pc \in {"fetched", "rendered"}

\* the positions of the payments the date filter of the request retains
RetainedAt(data) ==
    {i \in 1..Len(data) : range = "all" \/ Retained(data[i], range, clock)}

\* rank of the i-th entry is i
DenseRanks(entries) == \A i \in 1..Len(entries) : entries[i].rank = i

\* C1: the ranks of every leaderboard are 1, 2, ..., length in output
\* order, and getTopSpenders has one entry for each distinct userId among
\* the payments the date filter retains.
C1_DenseRanks ==
    Rendered =>
        /\ DenseRanks(topSpenders)
        /\ DenseRanks(topAffiliates)
        /\ DenseRanks(mostActive)
        /\ Len(topSpenders) =
              Cardinality({payments[i].userId : i \in RetainedAt(payments)})

\* C1 witness: three payments of two users, one of them outside the range,
\* ranked 1 and 2.
C1_Witness ==
    /\ Rendered
    /\ Len(payments) = 3
    /\ Cardinality(RetainedAt(payments)) = 2
    /\ Len(topSpenders) = 2
    /\ topSpenders[2].rank = 2

\* the other two leaderboards with two ranked entries
TwoAffiliatesRanked == Rendered /\ Len(topAffiliates) = 2
TwoActiveRanked     == Rendered /\ Len(mostActive) = 2

RECURSIVE SumAt(_, _)
\* the sum of the amounts at the positions S of the payments
SumAt(data, S) ==
    IF S = {} THEN Num(0)
    ELSE LET i == CHOOSE j \in S : TRUE
         IN  Plus(data[i].amount, SumAt(data, S \ {i}))

\* the retained payments of user u
PaidBy(u) == {i \in RetainedAt(payments) : payments[i].userId = u}

\* the users with a retained payment
Payers == {payments[i].userId : i \in RetainedAt(payments)}

\* C2: the (amount, count) pairs of the spend leaderboard are, with their
\* multiplicities, the (sum of amounts, number of payments) pairs of the
\* users with a retained payment; and the payments (A,100), (B,50), (A,25)
\* with range 'all' give [{1, A, 125, 2}, {2, B, 50, 1}].
C2_SumAndCount ==
    Rendered =>
        /\ Len(topSpenders) = Cardinality(Payers)
        /\ \A u \in Payers :
              LET total == SumAt(payments, PaidBy(u))
                  n     == Cardinality(PaidBy(u))
              IN  Cardinality({i \in 1..Len(topSpenders) :
                                  /\ topSpenders[i].amount = total
                                  /\ topSpenders[i].count = n})
                  = Cardinality({v \in Payers :
                                  /\ SumAt(payments, PaidBy(v)) = total
                                  /\ Cardinality(PaidBy(v)) = n})
        /\ ( /\ range = "all"
             /\ [i \in 1..Len(payments) |->
                    <<payments[i].userId, payments[i].amount>>]
                = << <<Str("A"), Num(100)>>, <<Str("B"), Num(50)>>,
                     <<Str("A"), Num(25)>> >> )
           => topSpenders =
                << [rank |-> 1, name |-> Str("A"), amount |-> Num(125), count |-> 2],
                   [rank |-> 2, name |-> Str("B"), amount |-> Num(50), count |-> 1] >>

\* C2 witness: the scenario of the three payments, rendered.
C2_Witness ==
    /\ Rendered
    /\ range = "all"
    /\ Len(payments) = 3
    /\ payments[1].userId = Str("A") /\ payments[1].amount = Num(100)
    /\ payments[2].userId = Str("B") /\ payments[2].amount = Num(50)
    /\ payments[3].userId = Str("A") /\ payments[3].amount = Num(25)
    /\ Len(topSpenders) = 2
RECURSIVE SumOfEntries(_, _)
\* the sum of the amount fields of the first n entries
SumOfEntries(entries, n) ==
    IF n = 0 THEN Num(0)
    ELSE Plus(SumOfEntries(entries, n - 1), entries[n].amount)

RECURSIVE ValidSumAt(_, _)
\* the sum of the amounts at the positions S, an invalid amount counting 0
ValidSumAt(data, S) ==
    IF S = {} THEN 0
    ELSE LET i == CHOOSE j \in S : TRUE
         IN  (IF data[i].amount.k = "number" THEN data[i].amount.n ELSE 0)
             + ValidSumAt(data, S \ {i})

\* C3: the amounts of the spend leaderboard add up to the amounts of the
\* retained payments, an invalid raw amount counting as 0.
C3_SumInvariant ==
    Rendered =>
        SumOfEntries(topSpenders, Len(topSpenders))
            = Num(ValidSumAt(payments, RetainedAt(payments)))

\* a >= b on numbers: false when either is NaN
Geq(a, b) == a.k = "number" /\ b.k = "number" /\ a.n >= b.n

NonIncreasing(entries, Metric(_)) ==
    \A i \in 1..(Len(entries) - 1) : Geq(Metric(entries[i]), Metric(entries[i + 1]))

AmountOf(e) == e.amount
CountOf(e)  == e.count

\* C4: each leaderboard is ordered by non-increasing metric: amount for
\* spenders and affiliates, count for active members.
C4_NonIncreasing ==
    Rendered =>
        /\ NonIncreasing(topSpenders, AmountOf)
        /\ NonIncreasing(topAffiliates, AmountOf)
        /\ NonIncreasing(mostActive, CountOf)

\* the order of C4 when fetchPayments produced no NaN amount
NonIncreasingWhenNumeric ==
    (Rendered /\ \A i \in 1..Len(payments) : payments[i].amount.k = "number")
        => /\ NonIncreasing(topSpenders, AmountOf)
           /\ NonIncreasing(topAffiliates, AmountOf)
           /\ NonIncreasing(mostActive, CountOf)

\* the first position in S (a non-empty set of positions)
FirstOf(S) == CHOOSE i \in S : \A j \in S : i <= j

\* rows with equal totals are in the order in which their keys first
\* appear among the records at the positions Of(key)
Stable(rows, Total(_), Of(_)) ==
    \A i, j \in 1..Len(rows) :
        (i < j /\ Total(rows[i]) = Total(rows[j]))
            => FirstOf(Of(rows[i].key)) < FirstOf(Of(rows[j].key))

\* the retained payments aggregated for affiliate a
ReferredBy(a) ==
    {i \in RetainedAt(payments) :
        payments[i].affiliateId = a /\ Truthy(payments[i].affiliateName)}

\* the retained memberships aggregated for user u
ActiveOf(u) ==
    {i \in RetainedAt(memberships) :
        memberships[i].userId = u /\ memberships[i].status = Str("active")}

\* the entries are the rows, in the same order
SameOrder(entries, rows, Metric(_)) ==
    /\ Len(entries) = Len(rows)
    /\ \A i \in 1..Len(rows) :
          entries[i].name = rows[i].name /\ Metric(entries[i]) = Metric(rows[i])

HasIdentity(p) == p.user.id # Undef \/ p.user_id # Undef

\* C7: a raw payment without a resolvable user id contributes to no
\* entry: the spend leaderboard is the one of the batch without the
\* identity-less payments.
C7_AnonymousDropped ==
    Rendered =>
        topSpenders =
            getTopSpenders(NormalizedPayments(SelectSeq(raw, HasIdentity), Now),
                           range, clock)

\* the first candidate of the amount that is present (undefined: none)
RawAmount(p) == IF p.amount # Undef THEN p.amount ELSE p.total_amount

\* a raw amount that is a number, or a string that is a number throughout
NumericAmount(v) == v.k = "number" \/ (v.k = "string" /\ v.s = "50")

\* C8: every raw payment is normalized to a payment whose amount is a
\* number, never NaN, and is 0 when the raw amount is missing or
\* non-numeric; no payment is rejected.
C8_InvalidAmountIsZero ==
    Fetched =>
        /\ Len(payments) = Len(raw)
        /\ \A i \in 1..Len(raw) :
              /\ payments[i].amount.k = "number"
              /\ ~NumericAmount(RawAmount(raw[i])) => payments[i].amount = Num(0)

\* C9: a raw payment whose first candidate, amount, is present with value
\* 0 normalizes to 0, whatever the later candidates hold.
C9_ZeroAmountKept ==
    Fetched =>
        \A i \in 1..Len(raw) :
            raw[i].amount = Num(0) => payments[i].amount = Num(0)

\* C10: every normalized payment has an amount that is a number >= 0, and
\* so has every spend and affiliate total.
C10_NonNegative ==
    /\ Fetched =>
          \A i \in 1..Len(payments) : Geq(payments[i].amount, Num(0))
    /\ Rendered =>
          /\ \A i \in 1..Len(topSpenders) : Geq(topSpenders[i].amount, Num(0))
          /\ \A i \in 1..Len(topAffiliates) : Geq(topAffiliates[i].amount, Num(0))
\* the last position in S (a non-empty set of positions)
LastOf(S) == CHOOSE i \in S : \A j \in S : j <= i

\* the purchases getCompanyAnalytics aggregates for the affiliate id
PurchasesOf(id) ==
    {i \in 1..Len(raw) :
        /\ Truthy(Or(raw[i].affiliate_id, raw[i].affiliate.id))
        /\ IdText(Or(raw[i].affiliate_id, raw[i].affiliate.id)) = id}

\* the affiliate name a purchase carries for getCompanyAnalytics
CarriedName(p) ==
    Or(p.affiliate.username,
       Str("Affiliate " \o IdText(Or(p.affiliate_id, p.affiliate.id))))

\* every entry is named after the record Pick chooses among the records
\* aggregated under its key
NamedAfter(Pick(_)) ==
    /\ Rendered =>
          /\ LET rows == SpenderRows(payments, range, clock)
             IN  /\ Len(topSpenders) = Len(rows)
                 /\ \A i \in 1..Len(rows) :
                       topSpenders[i].name
                          = payments[Pick(PaidBy(rows[i].key))].userName
          /\ LET rows == AffiliateRows(payments, range, clock)
             IN  /\ Len(topAffiliates) = Len(rows)
                 /\ \A i \in 1..Len(rows) :
                       topAffiliates[i].name
                          = payments[Pick(ReferredBy(rows[i].key))].affiliateName
    /\ pc = "analytics" =>
          \A i \in 1..Len(analytics.topAffiliates) :
              LET e == analytics.topAffiliates[i]
              IN  e.name = CarriedName(raw[Pick(PurchasesOf(e.id))])

RenamedAffiliateAnalysed ==
    /\ pc = "analytics"
    /\ Len(raw) = 2
    /\ raw[1].affiliate.username = Str("Xi") /\ raw[2].affiliate.username = Str("Xu")
    /\ Len(analytics.topAffiliates) = 1

\* the retained payments that carry the non-null affiliateId a
CarriedBy(a) == {i \in RetainedAt(payments) : payments[i].affiliateId = a}

\* the non-null affiliateIds of the retained payments
Referrers ==
    {payments[i].affiliateId : i \in
        {j \in RetainedAt(payments) :
            payments[j].affiliateId.k \notin {"undefined", "null"}}}

\* C11: the affiliate leaderboard has one entry for each non-null
\* affiliateId of the retained payments, its amount the sum and its count
\* the number of all retained payments carrying that affiliateId, whatever
\* their other fields; payments without affiliateId are in no entry.
C11_AffiliateAttribution ==
    Rendered =>
        LET rows == AffiliateRows(payments, range, clock)
        IN  /\ SameOrder(topAffiliates, rows, AmountOf)
            /\ {rows[i].key : i \in 1..Len(rows)} = Referrers
            /\ Len(rows) = Cardinality(Referrers)
            /\ \A i \in 1..Len(rows) :
                  /\ rows[i].amount = SumAt(payments, CarriedBy(rows[i].key))
                  /\ rows[i].count = Cardinality(CarriedBy(rows[i].key))
                  /\ topAffiliates[i].count = rows[i].count

RECURSIVE ActivityAt(_, _)
\* the sum of activityCount at the positions S of the memberships
ActivityAt(data, S) ==
    IF S = {} THEN Num(0)
    ELSE LET i == CHOOSE j \in S : TRUE
         IN  Plus(data[i].activityCount, ActivityAt(data, S \ {i}))

\* the users with a retained active membership
ActiveUsers ==
    {memberships[i].userId : i \in
        {j \in RetainedAt(memberships) : memberships[j].status = Str("active")}}

\* C12: the activity leaderboard has one entry for each user with a
\* retained membership of status 'active', its count the sum of
\* activityCount over those memberships; memberships of any other status
\* add nothing and a user without an active one has no entry.
C12_ActiveOnly ==
    Rendered =>
        LET rows == ActiveRows(memberships, range, clock)
        IN  /\ SameOrder(mostActive, rows, CountOf)
            /\ {rows[i].key : i \in 1..Len(rows)} = ActiveUsers
            /\ Len(rows) = Cardinality(ActiveUsers)
            /\ \A i \in 1..Len(rows) :
                  rows[i].count = ActivityAt(memberships, ActiveOf(rows[i].key))

\* C12 witness: A has an active membership with count 1 and a cancelled one
\* with count 2, B only a cancelled one; the leaderboard is A with count 1.
C12_Witness ==
    /\ Rendered
    /\ Len(memberships) = 3
    /\ \E i, j, k \in 1..3 :
          /\ memberships[i].userId = Str("A")
          /\ memberships[i].status = Str("active")
          /\ memberships[i].activityCount = Num(1)
          /\ memberships[j].userId = Str("A")
          /\ memberships[j].status = Str("cancelled")
          /\ memberships[j].activityCount = Num(2)
          /\ memberships[k].userId = Str("B")
          /\ memberships[k].status = Str("cancelled")
    /\ RetainedAt(memberships) = 1..3
    /\ Len(mostActive) = 1
    /\ mostActive[1].name = Str("A")
    /\ mostActive[1].count = Num(1)

\* the filter has run
Filtered == pc \in {"filtered", "refiltered"}

\* the record has a date: its createdAt, or else its lastActivityAt, is the
\* text of an instant
HasDate(item) == Or(item.createdAt, item.lastActivityAt).s = "iso"
DateOf(item)  == Or(item.createdAt, item.lastActivityAt).n

\* the number of days a range other than 'all' looks back
DaysOf(r) == CASE r = "today" -> 0 [] r = "7d" -> 7 [] r = "30d" -> 30

\* the dated records at or after local midnight of the day of t minus the
\* days of the range
AtOrAfterMidnight(data, r, t) ==
    SelectSeq(data, LAMBDA item :
        HasDate(item) /\ DateOf(item) >= StartOfDay(t) - DaysOf(r) * Day)

\* C13: for 'today', '7d' and '30d' the dated records retained are those at
\* or after local midnight of the current day minus 0, 7 or 30 days, the
\* current day being that of either read of the clock; a record at the
\* cutoff is retained, one a second earlier is not.
C13_CutoffBoundary ==
    (Filtered /\ range # "all") =>
        \E t \in {clock.now, clock.cutoffDate} :
            SelectSeq(filteredOnce, HasDate) = AtOrAfterMidnight(payments, range, t)

\* the same when the clock does not pass the end of a month between its two
\* reads
CutoffBoundaryWithinMonth ==
    (Filtered /\ range # "all" /\ clock # MonthTick) =>
        \E t \in {clock.now, clock.cutoffDate} :
            SelectSeq(filteredOnce, HasDate) = AtOrAfterMidnight(payments, range, t)

\* C14: for 'today', '7d' and '30d' no record without a resolvable date
\* (createdAt and lastActivityAt absent or empty, or the text not a date) is
\* retained; for 'all' the result is the input, every record in its place.
C14_UndatedExcluded ==
    Filtered =>
        IF range = "all" THEN filteredOnce = payments
        ELSE /\ \A i \in 1..Len(filteredOnce) : HasDate(filteredOnce[i])
             /\ Len(filteredOnce) <= Len(payments)

\* C14 witness: of a record without dates, a record whose createdAt is no
\* date and a record of today, 'today' retains the last one only.
C14_Witness ==
    /\ Filtered
    /\ range = "today"
    /\ clock = Steady
    /\ payments = << Dated(Undef, Undef),
                     Dated(Str("soon"), Iso(StartOfDay(Now))),
                     Dated(Iso(StartOfDay(Now)), Undef) >>
    /\ filteredOnce = << Dated(Iso(StartOfDay(Now)), Undef) >>

\* 'all' returns the records without a date too
UndatedKeptByAll ==
    /\ Filtered
    /\ range = "all"
    /\ payments = << Dated(Undef, Undef), Dated(Str("soon"), Iso(StartOfDay(Now))) >>
    /\ filteredOnce = payments

\* C15: with the range and the clock unchanged, filtering the filtered list
\* again gives the same list, the same records in the same order.
C15_Idempotent ==
    pc = "refiltered" => filteredTwice = filteredOnce

\* C15 witness: '7d' drops one of three records, and the second pass keeps
\* the remaining two.
C15_Witness ==
    /\ pc = "refiltered"
    /\ range = "7d"
    /\ Len(payments) = 3
    /\ Len(filteredOnce) = 2
    /\ Len(filteredTwice) = 2

\* the API answered the request for the payments, for the memberships
PaymentsAnswered == ResponseOk(apiStatus.payments)
MembersAnswered  == ResponseOk(apiStatus.members)

\* every entry of the answers is a record
WellFormed ==
    /\ \A i \in 1..Len(raw) : ~IsNull(raw[i])
    /\ \A i \in 1..Len(rawMembers) : ~IsNull(rawMembers[i])

\* C16: when the request for a collection fails, fetchPayments and
\* fetchMembers return the empty collection, so the leaderboards derived
\* from it are empty.
C16_EmptyOnFailure ==
    /\ (Fetched /\ ~PaymentsAnswered) => payments = <<>>
    /\ (Fetched /\ ~MembersAnswered) => memberships = <<>>
    /\ (Rendered /\ ~PaymentsAnswered) => topSpenders = <<>> /\ topAffiliates = <<>>
    /\ (Rendered /\ ~MembersAnswered) => mostActive = <<>>

\* C17: whichever requests fail, the collections of the answered requests
\* are returned by the fan-out of the three fetches, and getCompanyAnalytics
\* completes unless no request was answered.
C17_SuccessfulResultsReturned ==
    WellFormed =>
        /\ (Fetched /\ PaymentsAnswered) => payments = NormalizedPayments(raw, Now)
        /\ (Fetched /\ MembersAnswered) =>
              memberships = NormalizedMembers(rawMembers, Now)
        /\ pc = "error" => ~PaymentsAnswered /\ ~MembersAnswered

\* the payments of the well-formed entries of the answer, normalized
WellFormedPayments ==
    NormalizedPayments(SelectSeq(raw, LAMBDA p : ~IsNull(p)), Now)

\* C18: a null entry in an answered batch does not abort it: the
\* well-formed entries are normalized, in order, nothing else takes their
\* place, and nothing is thrown.
C18_MalformedRecordTolerated ==
    (PaymentsAnswered /\ MembersAnswered) =>
        /\ Fetched =>
              SelectSeq(payments,
                        LAMBDA p : \E i \in 1..Len(WellFormedPayments) :
                                       p = WellFormedPayments[i])
                 = WellFormedPayments
        /\ Fetched => \A i \in 1..Len(payments) :
                         \E j \in 1..Len(raw) :
                             ~IsNull(raw[j]) /\ payments[i] = NormalizePayment(raw[j], Now)
        /\ pc # "error"

\* a page has dealt with the identity of the request
Arrived == pc \notin {"arrive", "verified"}

\* some candidate field of the payload holds a user id, a company id
NamesUser(p) == Truthy(p.user_id) \/ Truthy(p.id) \/ Truthy(p.userId)
NamesCompany(p) ==
    \/ Truthy(p.company_id) \/ Truthy(p.install.company_id)
    \/ Truthy(p.companyId) \/ Truthy(p.tenantId)

\* the token decodes and a user id and a company id can be resolved from it
ResolvesIdentity(token) ==
    Decodes(token) /\ NamesUser(token.payload) /\ NamesCompany(token.payload)

\* C19: a request without token, with an undecodable token, or with a token
\* from which no user id or no company id can be resolved ends in the
\* invalid-session outcome: nothing is fetched or computed for it and no
\* substitute identity is used.
C19_InvalidSessionTerminal ==
    (Arrived /\ ~ResolvesIdentity(request.token)) =>
        pc = "invalid" /\ session = Null /\ NothingComputed

\* the user id and the company id as verifyWhopTokenOrRequest resolves
\* them: user_id or id; company_id, install.company_id, companyId or
\* tenantId
UserIdOf(p) == Or(p.user_id, p.id)
CompanyIdOf(p) ==
    Or(Or(Or(p.company_id, p.install.company_id), p.companyId), p.tenantId)

\* C20: verifyWhopTokenOrRequest returns a session exactly when the token
\* decodes to a payload with a user id and a company id; with a user id but
\* no company id it returns null; the companyId and whopUserId of a session
\* are non-empty strings.
C20_SessionNeedsCompany ==
    pc = "verified" =>
        /\ session # Null <=>
              /\ Decodes(request.token)
              /\ Truthy(UserIdOf(request.token.payload))
              /\ Truthy(CompanyIdOf(request.token.payload))
        /\ session # Null =>
              /\ session.companyId.k = "string" /\ session.companyId.s # ""
              /\ session.whopUserId.k = "string" /\ session.whopUserId.s # ""
              /\ session.whopUserId = StringOf(UserIdOf(request.token.payload))
              /\ session.companyId = StringOf(CompanyIdOf(request.token.payload))

\* C20 witness: the token of user u1 without any company id is refused.
C20_Witness ==
    /\ pc = "verified"
    /\ request.token = JwtOf(Payload(Str("u1"), Undef, Undef, Undef, NoInstall,
                                     Undef, Undef))
    /\ session = Null

\* a token with a numeric user id and the company in tenantId is accepted
SessionOfTenant ==
    /\ pc = "verified"
    /\ request.token = JwtOf(Payload(Num(7), Undef, Undef, Undef, NoInstall,
                                     Undef, Str("c4")))
    /\ session = [companyId |-> Str("c4"), whopUserId |-> Str("7")]

\* the ids of the entries of a leaderboard
IdsOf(board) == { board[i].id : i \in 1..Len(board) }

Analysed == pc = "analytics"

KeysOf(m) == { m[i].key : i \in 1..Len(m) }

\* the ids under which data.ts lists the members
ListedIds(members) ==
    { IdText(Coalesce(MemberId(members[i]),
                      MemberName(members[i], IdText(MemberId(members[i]))))) :
        i \in 1..Len(members) }

\* C25: no leaderboard is cut short: those of getCompanyAnalytics hold an
\* entry for every actor of the aggregation, and so do those of
\* getTopSpenders, getTopAffiliates and getMostActiveMembers
C25_NoHiddenLimit ==
    /\ Analysed =>
          /\ IdsOf(analytics.topSpenders) = KeysOf(SpendByMember(raw, Len(raw)))
          /\ IdsOf(analytics.topAffiliates)
                = KeysOf(AffiliateStats(raw, Len(raw)))
          /\ IdsOf(analytics.mostActiveMembers) = ListedIds(rawMembers) \ {""}
    /\ Rendered =>
          LET ps == filterByDateRange(payments, range, clock)
              ms == filterByDateRange(memberships, range, clock)
          IN  /\ Len(topSpenders) = Len(UserTotals(ps, Len(ps)))
              /\ Len(topAffiliates) = Len(AffiliateTotals(ps, Len(ps)))
              /\ Len(mostActive) = Len(UserActivity(ms, Len(ms)))

Min(a, b) == IF a < b THEN a ELSE b

\* getCompanyAnalytics shows the first 25 entries of each of its sorted
\* lists, a limit of its own; the leaderboards of leaderboard.ts hold an
\* entry for every actor of the aggregation
C25_FirstTwentyFive ==
    /\ Analysed =>
          /\ Len(analytics.topSpenders)
                = Min(LeaderboardCap, Len(SpendByMember(raw, Len(raw))))
          /\ IdsOf(analytics.topSpenders)
                \subseteq KeysOf(SpendByMember(raw, Len(raw)))
          /\ Len(analytics.topAffiliates)
                = Min(LeaderboardCap, Len(AffiliateStats(raw, Len(raw))))
          /\ IdsOf(analytics.topAffiliates)
                \subseteq KeysOf(AffiliateStats(raw, Len(raw)))
          /\ Len(analytics.mostActiveMembers)
                = Min(LeaderboardCap, Len(rawMembers))
          /\ IdsOf(analytics.mostActiveMembers) \subseteq ListedIds(rawMembers)
    /\ Rendered =>
          LET ps == filterByDateRange(payments, range, clock)
              ms == filterByDateRange(memberships, range, clock)
          IN  /\ Len(topSpenders) = Len(UserTotals(ps, Len(ps)))
              /\ Len(topAffiliates) = Len(AffiliateTotals(ps, Len(ps)))
              /\ Len(mostActive) = Len(UserActivity(ms, Len(ms)))

\* more spenders than a leaderboard of getCompanyAnalytics shows
C25_Witness ==
    /\ Analysed
    /\ Len(SpendByMember(raw, Len(raw))) > LeaderboardCap
    /\ Len(analytics.topSpenders) = LeaderboardCap

\* the texts of the ids present among values
TextsOf(values) == { IdText(v) : v \in { w \in values : Truthy(w) } }

\* the ids the input carries in its id fields
MemberIdsRead == TextsOf({ MemberId(rawMembers[i]) : i \in 1..Len(rawMembers) })
PayerIdsRead == TextsOf({ raw[i].user_id : i \in 1..Len(raw) })
AffiliateIdsRead ==
    TextsOf({ raw[i].affiliate_id : i \in 1..Len(raw) }
            \cup { raw[i].affiliate.id : i \in 1..Len(raw) })

\* C26: every entry of getCompanyAnalytics carries an id read from an id
\* field of the input; a member without an id yields no entry, so that
\* mostActiveMembers has one entry for each member record with an id
C26_IdsReadFromInput ==
    Analysed =>
        /\ IdsOf(analytics.topSpenders) \subseteq PayerIdsRead
        /\ IdsOf(analytics.topAffiliates) \subseteq AffiliateIdsRead
        /\ IdsOf(analytics.mostActiveMembers) \subseteq MemberIdsRead
        /\ IdsOf(analytics.randomWinnerPool)
              \subseteq PayerIdsRead \cup MemberIdsRead

\* the members without an id are under the cap and still change the result
IdlessMemberListed ==
    /\ Analysed
    /\ Len(rawMembers) <= LeaderboardCap
    /\ \E i \in 1..Len(rawMembers) : ~Truthy(MemberId(rawMembers[i]))
    /\ Len(analytics.mostActiveMembers) = Len(rawMembers)

Mounted == pc = "mounted"

\* the entries of a leaderboard
EntriesOf(board) == { board[i] : i \in 1..Len(board) }

\* C22: on every tab the winner shown is an actor of the random winner
\* pool
C22_WinnerFromPool ==
    Mounted /\ showModal => winner.id \in IdsOf(analytics.randomWinnerPool)

\* a winner drawn on the affiliates tab
AffiliateDrawn ==
    /\ Mounted
    /\ showModal
    /\ request.tab = Str("affiliates")
    /\ winner \in EntriesOf(analytics.topAffiliates)

\* C23: pickRandomWinner on an empty list of entries selects nothing:
\* winner and showModal keep their values and no undefined becomes the
\* winner
C23_EmptyEntriesNoSelection ==
    [][ Mounted /\ Len(shownEntries) = 0 /\ handler' = "pickRandomWinner"
          => winner' = winner /\ showModal' = showModal /\ winner' # Undef ]_vars

\* pickRandomWinner has run on an empty list
C23_Witness ==
    /\ Mounted
    /\ Len(shownEntries) = 0
    /\ handler = "pickRandomWinner"
    /\ winner = Null
    /\ showModal = FALSE

\* C24: with k entries and Math.random() = r, pickRandomWinner selects the
\* entry at index floor(r * k), an index of 0..k-1 (every entry is selected
\* by some r), makes it the winner and shows the modal
C24_UniformIndex ==
    Mounted /\ handler = "pickRandomWinner" /\ Len(shownEntries) > 0 =>
        LET k     == Len(shownEntries)
            index == RandomIndex(random, k)
        IN  /\ index \in 0..(k - 1)
            /\ winner = shownEntries[index + 1]
            /\ showModal = TRUE
            /\ \A i \in 0..(k - 1) :
                  \E n \in 0..(RandomSteps - 1) : RandomIndex(n, k) = i

\* the last of several entries has been selected
C24_Witness ==
    /\ Mounted
    /\ handler = "pickRandomWinner"
    /\ Len(shownEntries) >= 2
    /\ RandomIndex(random, Len(shownEntries)) = Len(shownEntries) - 1
    /\ winner = shownEntries[Len(shownEntries)]
    /\ showModal

\* C30: while the modal is shown the winner is one of the entries;
\* closeModal hides the modal and leaves the winner as it is
C30_ModalHasWinner ==
    /\ [](showModal => winner # Null /\ winner \in EntriesOf(shownEntries))
    /\ [][ Mounted /\ handler' = "closeModal"
             => showModal' = FALSE /\ winner' = winner ]_vars

\* the modal of a winner has been closed
C30_Witness ==
    /\ Mounted
    /\ handler = "closeModal"
    /\ showModal = FALSE
    /\ winner \in EntriesOf(shownEntries)

\* C27: loadCrownboardStatsForCompany starts its three fetches together
\* and returns only when all three have settled; what it returns is the
\* result of each fetch, in whatever order they settled
C27_AllSettledAnyOrder ==
    /\ pc = "loading" =>
          inflight = { Fetches[i] : i \in 1..Len(Fetches) }
                        \ { order[i] : i \in 1..Len(order) }
    /\ pc = "loaded" =>
          /\ inflight = {}
          /\ { order[i] : i \in 1..Len(order) }
                = { Fetches[i] : i \in 1..Len(Fetches) }
          /\ loaded.payments = fetchPayments(apiStatus.payments, raw, Now)
          /\ loaded.memberships
                = fetchMembers(apiStatus.members, rawMembers, Now)
          /\ \E draws \in Draws(Len(rawAffiliates)) :
                loaded.affiliates
                   = fetchAffiliates(apiStatus.affiliates, rawAffiliates, draws)

\* the fetches settled in the reverse of the order they were started in
C27_Witness ==
    /\ pc = "loaded"
    /\ order = <<"memberships", "affiliates", "payments">>
    /\ Len(loaded.payments) > 0
    /\ loaded.payments # loaded.memberships

\* the token of the request decodes to a session with a company id
TokenNamesCompany ==
    /\ Decodes(request.token)
    /\ verifyUserToken(request.token, request.nodeEnv) # Null
    /\ Truthy(verifyUserToken(request.token, request.nodeEnv).companyId)

\* C28: the legacy page ends in the redirect to the company's dashboard,
\* with the tab and the range of the request or their defaults, whenever
\* the token names a company, and renders the demo state only otherwise
C28_CompanyRedirects ==
    pc \in {"redirected", "demo"} =>
        IF TokenNamesCompany
        THEN /\ pc = "redirected"
             /\ location = RedirectTarget(
                    verifyUserToken(request.token, request.nodeEnv).companyId,
                    request)
        ELSE pc = "demo"

\* the demo state rendered for a token that names a company
DemoDespiteCompany ==
    /\ pc = "demo"
    /\ TokenNamesCompany
    /\ location = Null

RECURSIVE SubListFrom(_, _, _, _)
\* the elements of a from position i on occur, in their order, among the
\* elements of b from position j on
SubListFrom(a, b, i, j) ==
    IF i > Len(a) THEN TRUE
    ELSE IF j > Len(b) THEN FALSE
    ELSE IF a[i] = b[j] THEN SubListFrom(a, b, i + 1, j + 1)
    ELSE SubListFrom(a, b, i, j + 1)

\* a is b with some elements left out
SubList(a, b) == SubListFrom(a, b, 1, 1)

\* the payments of the state filtered by range r with every new Date()
\* of the call reading the instant t
FilteredAt(r, t) == filterByDateRange(payments, r, Clock(t, t))

\* C29: at a fixed reference time the ranges are nested: what today
\* retains is retained by 7d, what 7d retains by 30d, and all retains the
\* whole input; each result is the input with some elements left out, in
\* the order of the input; the input is left as it was
C29_RangesNested ==
    /\ [](pc = "filtered" =>
            \A t \in {clock.now, clock.cutoffDate} :
               /\ SubList(FilteredAt("today", t), FilteredAt("7d", t))
               /\ SubList(FilteredAt("7d", t), FilteredAt("30d", t))
               /\ SubList(FilteredAt("30d", t), FilteredAt("all", t))
               /\ FilteredAt("all", t) = payments
               /\ \A r \in Ranges : SubList(FilteredAt(r, t), payments)
               /\ clock.now = clock.cutoffDate
                     => filteredOnce = FilteredAt(range, t))
    /\ [][payments' = payments]_vars

\* three ranges that retain ever more of the input
C29_Witness ==
    /\ pc = "filtered"
    /\ clock.now = clock.cutoffDate
    /\ Len(FilteredAt("today", clock.now)) < Len(FilteredAt("7d", clock.now))
    /\ Len(FilteredAt("7d", clock.now)) < Len(FilteredAt("30d", clock.now))
    /\ Len(FilteredAt("30d", clock.now)) < Len(payments)
    /\ filteredOnce = FilteredAt(range, clock.now)
    /\ range = "7d"
====
